---- MODULE Spec2Model ----
(***************************************************************************)
(* Model of ochilab/labo-utils, src/CV/video_blink_detection.py: the       *)
(* per-frame blink detection loop of main(), the EAR calculation and the   *)
(* timestamp formatting it uses (Spec), main() from the command line to    *)
(* the report (SpecMain), format_timestamp alone (SpecFormat); and the     *)
(* main loop of src/CV/camera_recorder.py (SpecRecorder).                  *)
(*                                                                         *)
(* Arithmetic.  Landmark coordinates are integers on a grid.  A float is   *)
(* a record [kind, val]: kind "num" carries a fixed-point value in units   *)
(* of 1/EarScale (val = 40 stands for 0.20), kind "inf" and "nan" are the  *)
(* IEEE results of dividing by zero, which numpy returns (with a warning)  *)
(* instead of raising.  A mean is kept exactly, as the pair sum/count.     *)
(* Rounding of binary64 is not modelled: the landmark inputs are chosen so *)
(* that every norm, quotient and half taken of them is exact.              *)
(***************************************************************************)
EXTENDS Integers, Sequences, FiniteSets, TLC

VARIABLES
    pc,                 \* "loop": inside `while cap.isOpened()`, "done": after the loop
    current_frame,      \* frames decoded so far (line 133)
    frame_counter,      \* length of the below-threshold run in progress (line 131)
    blink_start_frame,  \* first frame of the run in progress, or None (line 136)
    blink_ear_values,   \* (left, right, avg) of the frames of the run (line 137)
    total_blinks,       \* line 130
    blink_records,      \* line 129
    ear_values,         \* one avg EAR per face-detected frame (line 132)
    csv_rows,           \* data rows written through csv_writer (lines 205-212)
    frames,             \* what the decoder and the landmarker returned, per frame
    \* main() of video_blink_detection.py around the loop
    video,              \* the command line and the file it names
    cap,                \* the cv2.VideoCapture: "none", "unopened", "open", "released"
    csv_file,           \* "none", "open", "closed"
    landmarker,         \* the FaceLandmarker: "none", "open", "closed"
    stdout_rate,        \* the blink rate line of the console (line 237)
    report,             \* the report file (lines 245-277)
    exit_code,          \* -1 while running, then the exit status of the process
    error,              \* the uncaught exception that ended the run, or ""
    \* format_timestamp alone
    fmt_in,             \* its argument
    fmt_out,            \* the fields of its result, <<>> before the call
    \* main() of camera_recorder.py
    rec_pc,             \* "start", "loop", "cleanup", "end", "crashed"
    rec_iter,           \* iterations of the main loop so far
    is_recording,       \* line 86
    video_writer,       \* line 87: None, or the number of the writer
    recording_frame_number,  \* line 90
    writers             \* every cv2.VideoWriter created: frames written, releases

vars == <<pc, current_frame, frame_counter, blink_start_frame, blink_ear_values,
          total_blinks, blink_records, ear_values, csv_rows, frames>>

mainVars == <<video, cap, csv_file, landmarker, stdout_rate, report, exit_code, error>>

fmtVars == <<fmt_in, fmt_out>>

recVars == <<rec_pc, rec_iter, is_recording, video_writer, recording_frame_number,
             writers>>

allVars == <<vars, mainVars, fmtVars, recVars>>

-----------------------------------------------------------------------------
(* Bounds of the model *)

MaxFrames == 6          \* frames the decoder returns at most
FPS == 30               \* frame rate of the decoded video
MetaFrames == 90        \* CAP_PROP_FRAME_COUNT of a video that reports one
MaxMainFrames == 4      \* frames decoded at most in a run of the whole of main()
MaxHours == 25          \* the longest timestamp formatted, in hours
MaxIterations == 6      \* iterations of the recorder's main loop at most

(* Fixed point: the float x is the integer x * EarScale *)
EarScale == 2 * 100

(* Program constants *)
EAR_THRESHOLD == EarScale \div 5        \* 0.2
CONSECUTIVE_FRAMES == 2
None == 0                               \* frame numbers start at 1

LEFT_EYE_INDEXES == <<33, 160, 158, 133, 153, 144>>
RIGHT_EYE_INDEXES == <<362, 385, 387, 263, 373, 380>>

-----------------------------------------------------------------------------
(* Floats *)

Num(n) == [kind |-> "num", val |-> n]
PosInf == [kind |-> "inf", val |-> 0]
NaN == [kind |-> "nan", val |-> 0]
NoEar == [kind |-> "none", val |-> 0]   \* no value: the frame had no face

\* n / d for n >= 0, d >= 0 in grid units, as numpy's float64 division
FDiv(n, d) ==
    IF d = 0
    THEN IF n = 0 THEN NaN ELSE PosInf
    ELSE Num((n * EarScale) \div d)

FAdd(a, b) ==
    IF a.kind = "nan" \/ b.kind = "nan" THEN NaN
    ELSE IF a.kind = "inf" \/ b.kind = "inf" THEN PosInf
    ELSE Num(a.val + b.val)

FHalf(a) == IF a.kind = "num" THEN Num(a.val \div 2) ELSE a

\* a < t and a >= t for a float a and a finite t; both are false of nan
FLt(a, t) == a.kind = "num" /\ a.val < t
FGe(a, t) == (a.kind = "num" /\ a.val >= t) \/ a.kind = "inf"

ISqrt(n) == CHOOSE r \in 0..n : r * r <= n /\ (r + 1) * (r + 1) > n

\* np.linalg.norm(p - q) of two points
Norm(p, q) ==
    ISqrt((p[1] - q[1]) * (p[1] - q[1]) + (p[2] - q[2]) * (p[2] - q[2]))

RECURSIVE SumSeq(_)
SumSeq(s) == IF s = <<>> THEN 0 ELSE Head(s) + SumSeq(Tail(s))

\* np.mean of a non-empty list of finite floats, exact: num / den
Mean(s) == [num |-> SumSeq([i \in 1..Len(s) |-> s[i].val]), den |-> Len(s)]

\* the rational q < the fixed-point t
RatLt(q, t) == q.num < t * q.den

-----------------------------------------------------------------------------
(* calculate_eye_aspect_ratio: eye_landmarks[0..5] are eye[1..6] here *)

Horizontal(eye) == Norm(eye[1], eye[4])

calculate_eye_aspect_ratio(eye) ==
    LET vertical_1 == Norm(eye[2], eye[6])
        vertical_2 == Norm(eye[3], eye[5])
        horizontal == Horizontal(eye)
    IN  FDiv(vertical_1 + vertical_2, 2 * horizontal)

(* format_timestamp: the fields <<HH, MM, SS, mmm>> of the string.         *)
(* timedelta(milliseconds = t) normalises into days, seconds (0..86399)    *)
(* and microseconds; the function reads seconds and microseconds only.     *)
format_timestamp(milliseconds) ==
    LET td_seconds == (milliseconds \div 1000) % 86400
        td_microseconds == (milliseconds % 1000) * 1000
        hours == td_seconds \div 3600
        minutes == (td_seconds % 3600) \div 60
        seconds == td_seconds % 60
        ms == td_microseconds \div 1000
    IN  <<hours, minutes, seconds, ms>>

\* f"{x:.4f}" of a mean: the number of 1/10000 it prints (half rounds up)
Fmt4(q) == (2 * q.num * (10000 \div EarScale) + q.den) \div (2 * q.den)

-----------------------------------------------------------------------------
(* Inputs: what the landmarker can return for a frame *)

\* an eye whose corners are h apart (dx, dy) and whose lids are v1, v2 apart
Eye(dx, dy, v1, v2) ==
    <<  <<0, 0>>, <<3, v1>>, <<6, v2>>, <<dx, dy>>, <<6, 0>>, <<3, 0>>  >>

EyeOpen == Eye(10, 0, 3, 3)         \* EAR 0.30
EyeHalf == Eye(8, 6, 2, 2)          \* EAR 0.20, corners on a slant
EyeNarrow == Eye(10, 0, 1, 2)       \* EAR 0.15
EyeShut == Eye(8, 6, 1, 1)          \* EAR 0.10
EyeFlat == Eye(0, 0, 1, 1)          \* corners coincide: horizontal = 0
EyePoint == Eye(0, 0, 0, 0)         \* all six points coincide

\* the landmark list of one face: the entries the program reads
Face(left, right) ==
    [i \in {LEFT_EYE_INDEXES[k] : k \in 1..6} \cup {RIGHT_EYE_INDEXES[k] : k \in 1..6} |->
        IF \E k \in 1..6 : LEFT_EYE_INDEXES[k] = i
        THEN left[CHOOSE k \in 1..6 : LEFT_EYE_INDEXES[k] = i]
        ELSE right[CHOOSE k \in 1..6 : RIGHT_EYE_INDEXES[k] = i]]

NoFace == <<>>

\* results.face_landmarks: no face, or one face (num_faces = 1)
LandmarkResults ==
    { NoFace,
      <<Face(EyeOpen, EyeOpen)>>,       \* avg 0.30
      <<Face(EyeHalf, EyeHalf)>>,       \* avg 0.20, the threshold
      <<Face(EyeNarrow, EyeNarrow)>>,   \* avg 0.15
      <<Face(EyeShut, EyeNarrow)>>,     \* avg 0.125
      <<Face(EyeFlat, EyeOpen)>>,       \* left EAR inf
      <<Face(EyePoint, EyeNarrow)>> }   \* left EAR nan

\* cap.get(cv2.CAP_PROP_POS_MSEC) after reading frame number cf
PosMsec(cf) == ((cf - 1) * 1000) \div FPS

-----------------------------------------------------------------------------
(* The steps of the loop body, lines 164-217 *)

FaceDetected(results) == results # <<>>

LeftEye(landmarks) == [k \in 1..6 |-> landmarks[LEFT_EYE_INDEXES[k]]]
RightEye(landmarks) == [k \in 1..6 |-> landmarks[RIGHT_EYE_INDEXES[k]]]

AvgEar(left_ear, right_ear) == FHalf(FAdd(left_ear, right_ear))

NextFrame(cf) == cf + 1

\* mutant: the append of line 175 moved under `if ear < EAR_THRESHOLD`
RecordEar_belowOnly(ev, ear) == IF FLt(ear, EAR_THRESHOLD) THEN Append(ev, ear) ELSE ev

RecordEar(ev, ear) == Append(ev, ear)

\* mutant: `<=` for `<` at line 178
BelowThreshold_inclusive(ear) == ear.kind = "num" /\ ear.val <= EAR_THRESHOLD

BelowThreshold(ear) == FLt(ear, EAR_THRESHOLD)

\* mutants: `>` for `>=` at line 184, and a threshold of one frame
BlinkConfirmed_strict(fc) == fc > CONSECUTIVE_FRAMES
BlinkConfirmed_any(fc) == fc >= 1

BlinkConfirmed(fc) == fc >= CONSECUTIVE_FRAMES

StartFrame(bsf, cf) == IF bsf = None THEN cf ELSE bsf

\* mutant: line 185 without the increment
NextBlinkNumber_same(tb) == tb

NextBlinkNumber(tb) == tb + 1

BlinkRecord(tb, ts, bsf, bev, fc) ==
    [ blink_number    |-> tb,
      timestamp       |-> format_timestamp(ts),
      frame           |-> bsf,
      left_ear        |-> Mean([i \in 1..Len(bev) |-> bev[i][1]]),
      right_ear       |-> Mean([i \in 1..Len(bev) |-> bev[i][2]]),
      avg_ear         |-> Mean([i \in 1..Len(bev) |-> bev[i][3]]),
      duration_frames |-> fc ]

\* mutant: the first and third columns of the row of lines 205-212 swapped
CsvRow_swapped(rec) ==
    << rec.frame, rec.timestamp, rec.blink_number,
       Fmt4(rec.left_ear), Fmt4(rec.right_ear), Fmt4(rec.avg_ear) >>

CsvRow(rec) ==
    << rec.blink_number, rec.timestamp, rec.frame,
       Fmt4(rec.left_ear), Fmt4(rec.right_ear), Fmt4(rec.avg_ear) >>

\* the tracking state after the reset of lines 215-217
\* mutant: the reset of line 215 moved under `if frame_counter >= CONSECUTIVE_FRAMES`
ResetCounter_afterBlinkOnly == IF BlinkConfirmed(frame_counter) THEN 0 ELSE frame_counter

ResetCounter == 0
\* mutant: line 216 missing
ResetStart_kept == blink_start_frame

ResetStart == None

\* mutant: line 217 missing
ResetValues_kept == blink_ear_values

ResetValues == <<>>

\* what a frame without a face does to the run in progress: nothing (no else at 164)
\* mutant: an else branch at line 164 that restarts the run
GapCounter_restart(fc) == 0

GapCounter(fc) == fc
GapStart(bsf) == bsf
GapValues(bev) == bev

\* what the loop records about a frame (not program state)
FrameEntry(results, ts, nrec) ==
    IF FaceDetected(results)
    THEN LET l == calculate_eye_aspect_ratio(LeftEye(results[1]))
             r == calculate_eye_aspect_ratio(RightEye(results[1]))
         IN  [ face |-> TRUE,
               degenerate |-> Horizontal(LeftEye(results[1])) = 0
                              \/ Horizontal(RightEye(results[1])) = 0,
               left |-> l, right |-> r, ear |-> AvgEar(l, r),
               ts |-> ts, nrec |-> nrec ]
    ELSE [ face |-> FALSE, degenerate |-> FALSE,
           left |-> NoEar, right |-> NoEar, ear |-> NoEar,
           ts |-> ts, nrec |-> nrec ]

-----------------------------------------------------------------------------
\* the values of lines 129-137
TrackingInit ==
    /\ current_frame = 0
    /\ frame_counter = 0
    /\ blink_start_frame = None
    /\ blink_ear_values = <<>>
    /\ total_blinks = 0
    /\ blink_records = <<>>
    /\ ear_values = <<>>
    /\ csv_rows = <<>>
    /\ frames = <<>>

\* a rational number of blinks per minute; den = 0 when none is given
NoRate == [num |-> 0, den |-> 0]

NoReport == [written |-> FALSE, has_rate |-> FALSE, rate |-> NoRate, blinks |-> 0, rows |-> 0]

\* main() on entry to the loop of line 141, for a video of MetaFrames frames
LoopEntry ==
    /\ video = [has_arg |-> TRUE, exists |-> TRUE, opens |-> TRUE,
                fps |-> FPS, frame_count |-> MetaFrames]
    /\ cap = "open"
    /\ csv_file = "open"
    /\ landmarker = "open"
    /\ stdout_rate = NoRate
    /\ report = NoReport
    /\ exit_code = -1
    /\ error = ""

\* format_timestamp not called
FmtIdle ==
    /\ fmt_in = 0
    /\ fmt_out = <<>>

\* camera_recorder.py not started
RecIdle ==
    /\ rec_pc = "start"
    /\ rec_iter = 0
    /\ is_recording = FALSE
    /\ video_writer = None
    /\ recording_frame_number = 0
    /\ writers = <<>>

\* the loop of lines 141-217 alone
Init ==
    /\ pc = "loop"
    /\ TrackingInit
    /\ LoopEntry
    /\ FmtIdle
    /\ RecIdle

\* one iteration of the loop: cap.read() succeeded, lines 146-217
ProcessFrame(results) ==
    /\ pc = "loop"
    /\ current_frame < MaxFrames
    /\ LET cf == NextFrame(current_frame)
           timestamp_ms == PosMsec(cf)
       IN
       /\ current_frame' = cf
       /\ pc' = pc
       /\ IF FaceDetected(results)
          THEN LET landmarks == results[1]
                   left_ear == calculate_eye_aspect_ratio(LeftEye(landmarks))
                   right_ear == calculate_eye_aspect_ratio(RightEye(landmarks))
                   ear == AvgEar(left_ear, right_ear)
               IN
               /\ ear_values' = RecordEar(ear_values, ear)
               /\ IF BelowThreshold(ear)
                  THEN /\ frame_counter' = frame_counter + 1
                       /\ blink_start_frame' = StartFrame(blink_start_frame, cf)
                       /\ blink_ear_values' =
                              Append(blink_ear_values, <<left_ear, right_ear, ear>>)
                       /\ UNCHANGED <<total_blinks, blink_records, csv_rows>>
                  ELSE /\ IF BlinkConfirmed(frame_counter)
                          THEN LET rec == BlinkRecord(NextBlinkNumber(total_blinks),
                                              timestamp_ms, blink_start_frame,
                                              blink_ear_values, frame_counter)
                               IN  /\ total_blinks' = NextBlinkNumber(total_blinks)
                                   /\ blink_records' = Append(blink_records, rec)
                                   /\ csv_rows' = Append(csv_rows, CsvRow(rec))
                          ELSE UNCHANGED <<total_blinks, blink_records, csv_rows>>
                       /\ frame_counter' = ResetCounter
                       /\ blink_start_frame' = ResetStart
                       /\ blink_ear_values' = ResetValues
          ELSE /\ frame_counter' = GapCounter(frame_counter)
               /\ blink_start_frame' = GapStart(blink_start_frame)
               /\ blink_ear_values' = GapValues(blink_ear_values)
               /\ UNCHANGED <<ear_values, total_blinks, blink_records, csv_rows>>
       /\ frames' = Append(frames, FrameEntry(results, timestamp_ms, Len(blink_records')))

\* cap.read() fails: break, lines 142-144, then the release of lines 219-221
EndOfStream ==
    /\ pc = "loop"
    /\ pc' = "done"
    /\ UNCHANGED <<current_frame, frame_counter, blink_start_frame, blink_ear_values,
                   total_blinks, blink_records, ear_values, csv_rows, frames>>

\* leaving the `with` block closes the landmarker; lines 220-221
ReleaseAll ==
    /\ landmarker' = "closed"
    /\ cap' = "released"
    /\ csv_file' = "closed"
    /\ UNCHANGED <<video, stdout_rate, report, exit_code, error>>

LoopFrame ==
    /\ \E results \in LandmarkResults : ProcessFrame(results)
    /\ UNCHANGED <<mainVars, fmtVars, recVars>>

LoopEnd ==
    /\ EndOfStream
    /\ ReleaseAll
    /\ UNCHANGED <<fmtVars, recVars>>

Next ==
    \/ LoopFrame
    \/ LoopEnd

Spec == Init /\ [][Next]_allVars

-----------------------------------------------------------------------------
(* main() of video_blink_detection.py as a whole *)

\* the command lines and files main() can be started on; CAP_PROP_FPS and
\* CAP_PROP_FRAME_COUNT are 0 for a container that does not state them
Videos ==
    [ has_arg : BOOLEAN, exists : BOOLEAN, opens : BOOLEAN,
      fps : {0, FPS}, frame_count : {0, MetaFrames} ]

\* what the landmarker returns in these runs
MainResults ==
    { NoFace, <<Face(EyeOpen, EyeOpen)>>, <<Face(EyeNarrow, EyeNarrow)>> }

NoArgument(v) == ~v.has_arg          \* line 73
PathMissing(v) == ~v.exists          \* line 81

\* mutant: line 88 without the `not`-branch taken
OpenFailed_unchecked(v) == FALSE

OpenFailed(v) == ~v.opens            \* line 88

\* duration = total_frames / fps, in seconds, as the pair num / den (line 95)
Duration(v) == [num |-> v.frame_count, den |-> v.fps]

\* mutant: the rate printed whatever total_blinks is
RateReported_always(tb) == TRUE

RateReported(tb) == tb > 0           \* lines 235 and 261

\* mutant: blinks per second, `duration` for `duration / 60`
BlinkRate_perSecond(tb, d) == [num |-> tb * d.den, den |-> d.num]

\* total_blinks / (duration / 60), as the pair num / den (lines 237, 262)
BlinkRate(tb, d) == [num |-> tb * 60 * d.den, den |-> d.num]

\* the process ends: sys.exit(code), or an uncaught exception (status 1)
Exit(code, exc) ==
    /\ pc' = "exit"
    /\ exit_code' = code
    /\ error' = exc

MainInit ==
    /\ pc = "start"
    /\ TrackingInit
    /\ video \in Videos
    /\ cap = "none"
    /\ csv_file = "none"
    /\ landmarker = "none"
    /\ stdout_rate = NoRate
    /\ report = NoReport
    /\ exit_code = -1
    /\ error = ""
    /\ FmtIdle
    /\ RecIdle

\* lines 73-97: the argument, the path, the capture and its properties
Startup ==
    /\ pc = "start"
    /\ IF NoArgument(video) \/ PathMissing(video)
       THEN /\ Exit(1, "")
            /\ cap' = cap
       ELSE IF OpenFailed(video)
       THEN /\ Exit(1, "")
            /\ cap' = "unopened"
       ELSE IF Duration(video).den = 0
       THEN /\ Exit(1, "ZeroDivisionError")
            /\ cap' = "open"
       ELSE /\ pc' = "opened"
            /\ cap' = "open"
            /\ UNCHANGED <<exit_code, error>>
    /\ UNCHANGED <<current_frame, frame_counter, blink_start_frame, blink_ear_values,
                   total_blinks, blink_records, ear_values, csv_rows, frames>>
    /\ UNCHANGED <<video, csv_file, landmarker, stdout_rate, report>>
    /\ UNCHANGED <<fmtVars, recVars>>

\* lines 108-114: the CSV file and its header row
OpenCsv ==
    /\ pc = "opened"
    /\ pc' = "csv"
    /\ csv_file' = "open"
    /\ UNCHANGED <<current_frame, frame_counter, blink_start_frame, blink_ear_values,
                   total_blinks, blink_records, ear_values, csv_rows, frames>>
    /\ UNCHANGED <<video, cap, landmarker, stdout_rate, report, exit_code, error>>
    /\ UNCHANGED <<fmtVars, recVars>>

\* lines 117-139: FaceLandmarker.create_from_options, which raises when the
\* model file cannot be loaded
CreateLandmarker(ok) ==
    /\ pc = "csv"
    /\ IF ok
       THEN /\ pc' = "loop"
            /\ landmarker' = "open"
            /\ UNCHANGED <<exit_code, error>>
       ELSE /\ Exit(1, "RuntimeError")
            /\ landmarker' = landmarker
    /\ UNCHANGED <<current_frame, frame_counter, blink_start_frame, blink_ear_values,
                   total_blinks, blink_records, ear_values, csv_rows, frames>>
    /\ UNCHANGED <<video, cap, csv_file, stdout_rate, report>>
    /\ UNCHANGED <<fmtVars, recVars>>

MainFrame ==
    /\ current_frame < MaxMainFrames
    /\ \E results \in MainResults : ProcessFrame(results)
    /\ UNCHANGED <<mainVars, fmtVars, recVars>>

\* lines 146-161 when cvtColor or detect_for_video raises: the `with` block
\* closes the landmarker and the exception leaves main()
FrameFails ==
    /\ pc = "loop"
    /\ current_frame < MaxMainFrames
    /\ current_frame' = NextFrame(current_frame)
    /\ landmarker' = "closed"
    /\ Exit(1, "RuntimeError")
    /\ UNCHANGED <<frame_counter, blink_start_frame, blink_ear_values,
                   total_blinks, blink_records, ear_values, csv_rows, frames>>
    /\ UNCHANGED <<video, cap, csv_file, stdout_rate, report>>
    /\ UNCHANGED <<fmtVars, recVars>>

\* lines 223-279: the console summary, then the report file
Report ==
    /\ pc = "done"
    /\ IF RateReported(total_blinks) /\ BlinkRate(total_blinks, Duration(video)).den = 0
       THEN \* line 237 divides by zero before the report file is opened
            /\ Exit(1, "ZeroDivisionError")
            /\ UNCHANGED <<stdout_rate, report>>
       ELSE /\ stdout_rate' = IF RateReported(total_blinks)
                              THEN BlinkRate(total_blinks, Duration(video))
                              ELSE NoRate
            /\ report' = [ written |-> TRUE,
                           has_rate |-> RateReported(total_blinks),
                           rate |-> IF RateReported(total_blinks)
                                    THEN BlinkRate(total_blinks, Duration(video))
                                    ELSE NoRate,
                           blinks |-> total_blinks,
                           rows |-> Len(blink_records) ]
            /\ Exit(0, "")
    /\ UNCHANGED <<current_frame, frame_counter, blink_start_frame, blink_ear_values,
                   total_blinks, blink_records, ear_values, csv_rows, frames>>
    /\ UNCHANGED <<video, cap, csv_file, landmarker>>
    /\ UNCHANGED <<fmtVars, recVars>>

MainNext ==
    \/ Startup
    \/ OpenCsv
    \/ \E ok \in BOOLEAN : CreateLandmarker(ok)
    \/ MainFrame
    \/ FrameFails
    \/ LoopEnd
    \/ Report

SpecMain == MainInit /\ [][MainNext]_allVars

-----------------------------------------------------------------------------
(* format_timestamp on its own *)

\* millisecond values around the turns of the second, minute, hour and day
Timestamps ==
    { h * 3600000 + m * 60000 + sec * 1000 + ms :
        h \in 0..MaxHours, m \in {0, 59}, sec \in {0, 59}, ms \in {0, 999} }

FormatInit ==
    /\ fmt_in \in Timestamps
    /\ fmt_out = <<>>
    /\ pc = "loop"
    /\ TrackingInit
    /\ LoopEntry
    /\ RecIdle

\* format_timestamp(timestamp_ms), lines 195 and 207
FormatCall ==
    /\ fmt_out = <<>>
    /\ fmt_out' = format_timestamp(fmt_in)
    /\ UNCHANGED <<fmt_in, vars, mainVars, recVars>>

SpecFormat == FormatInit /\ [][FormatCall]_allVars

-----------------------------------------------------------------------------
(* main() of src/CV/camera_recorder.py *)

\* cv2.waitKey(1) & 0xFF: 'q', the space bar, or anything else (no key too)
Keys == {"q", " ", "other"}

\* lines 99-100
CountFrame(recording, n) == IF recording THEN n + 1 ELSE n

\* mutant: line 198 missing
StartNumber_kept == recording_frame_number

\* line 198
StartNumber == 0

\* line 212
StopReleases(vw) == vw # None

\* mutant: lines 225-226 missing
CleanupReleases_never(vw) == FALSE

\* line 225
CleanupReleases(vw) == vw # None

\* cv2.VideoWriter(...), line 205
NewWriter == [written |-> <<>>, released |-> 0]

\* video_writer.write(frame) of the frame numbered n, line 173
WriteFrame(ws, vw, n) ==
    [ws EXCEPT ![vw].written = Append(@, [n |-> n, late |-> ws[vw].released > 0])]

\* video_writer.release(), lines 213 and 226
ReleaseWriter(ws, vw) == [ws EXCEPT ![vw].released = @ + 1]

RecorderInit ==
    /\ RecIdle
    /\ pc = "loop"
    /\ TrackingInit
    /\ LoopEntry
    /\ FmtIdle

\* lines 45-90: the camera, the measured FPS, the recording variables
RecStart(opened) ==
    /\ rec_pc = "start"
    /\ rec_pc' = IF opened THEN "loop" ELSE "end"
    /\ is_recording' = FALSE
    /\ video_writer' = None
    /\ recording_frame_number' = 0
    /\ UNCHANGED <<rec_iter, writers>>
    /\ UNCHANGED <<vars, mainVars, fmtVars>>

\* one iteration of `while True`, lines 93-222: ret of cap.read(), the key
\* of cv2.waitKey, and whether the recorded file exists for os.path.getsize
RecLoop(ret, key, file_ok) ==
    /\ rec_pc = "loop"
    /\ rec_iter < MaxIterations
    /\ rec_iter' = rec_iter + 1
    /\ IF ~ret
       THEN \* lines 94-96
            /\ rec_pc' = "cleanup"
            /\ UNCHANGED <<is_recording, video_writer, recording_frame_number, writers>>
       ELSE LET number == CountFrame(is_recording, recording_frame_number)
                written == IF is_recording /\ video_writer # None
                           THEN WriteFrame(writers, video_writer, number)
                           ELSE writers
            IN
            IF is_recording /\ video_writer = None
            THEN \* line 173 on None
                 /\ rec_pc' = "AttributeError"
                 /\ recording_frame_number' = number
                 /\ UNCHANGED <<is_recording, video_writer, writers>>
            ELSE IF key = "q"
            THEN /\ rec_pc' = "cleanup"
                 /\ recording_frame_number' = number
                 /\ writers' = written
                 /\ UNCHANGED <<is_recording, video_writer>>
            ELSE IF key = " " /\ ~is_recording
            THEN /\ recording_frame_number' = StartNumber
                 /\ writers' = Append(written, NewWriter)
                 /\ video_writer' = Len(written) + 1
                 /\ is_recording' = TRUE
                 /\ rec_pc' = "loop"
            ELSE IF key = " "
            THEN /\ is_recording' = FALSE
                 /\ recording_frame_number' = number
                 /\ writers' = IF StopReleases(video_writer)
                                THEN ReleaseWriter(written, video_writer)
                                ELSE written
                 /\ video_writer' = IF StopReleases(video_writer) THEN None
                                     ELSE video_writer
                 /\ rec_pc' = IF file_ok THEN "loop" ELSE "FileNotFoundError"
            ELSE /\ recording_frame_number' = number
                 /\ writers' = written
                 /\ rec_pc' = "loop"
                 /\ UNCHANGED <<is_recording, video_writer>>
    /\ UNCHANGED <<vars, mainVars, fmtVars>>

\* lines 224-229
RecCleanup ==
    /\ rec_pc = "cleanup"
    /\ rec_pc' = "end"
    /\ writers' = IF CleanupReleases(video_writer)
                   THEN ReleaseWriter(writers, video_writer)
                   ELSE writers
    /\ UNCHANGED <<rec_iter, is_recording, video_writer, recording_frame_number>>
    /\ UNCHANGED <<vars, mainVars, fmtVars>>

RecorderNext ==
    \/ \E opened \in BOOLEAN : RecStart(opened)
    \/ \E ret \in BOOLEAN, key \in Keys, file_ok \in BOOLEAN : RecLoop(ret, key, file_ok)
    \/ RecCleanup

SpecRecorder == RecorderInit /\ [][RecorderNext]_allVars

-----------------------------------------------------------------------------
(* Reading the recorded frames *)

N == Len(frames)

IsBelow(e) == e.face /\ FLt(e.ear, EAR_THRESHOLD)
IsAtAbove(e) == e.face /\ FGe(e.ear, EAR_THRESHOLD)
IsNoFace(e) == ~e.face

\* records in the log after frame k
LogAfter(k) == IF k = 0 THEN 0 ELSE frames[k].nrec

\* frame k appended a record
Emitted(k) == LogAfter(k) > LogAfter(k - 1)

\* the frame that appended record j
EmitFrame(j) == CHOOSE k \in 1..N : LogAfter(k) = j /\ LogAfter(k - 1) = j - 1

\* the frames i..k-1 are all below-threshold or faceless
Stretch(i, k) == \A m \in i..(k - 1) : IsBelow(frames[m]) \/ IsNoFace(frames[m])

\* the below-threshold frames among i..k-1
BelowIn(i, k) == {m \in i..(k - 1) : IsBelow(frames[m])}

\* where the longest such stretch ending right before frame k begins
StretchStart(k) == CHOOSE i \in 1..k : Stretch(i, k) /\ (i = 1 \/ ~Stretch(i - 1, k))

\* the length of the below-threshold run that frame k finds in progress
RunBefore(k) == Cardinality(BelowIn(StretchStart(k), k))

\* the first frame of that run, 0 when there is none
RunStart(k) ==
    LET run == BelowIn(StretchStart(k), k)
    IN  IF run = {} THEN 0 ELSE CHOOSE m \in run : \A x \in run : m <= x

-----------------------------------------------------------------------------
\* C1: open frames, then exactly L frames below the threshold, then at least
\* one frame at or above it (all with a face): exactly one record, of
\* duration L, when L >= CONSECUTIVE_FRAMES, and no record when L is smaller.
C1_MinimumRunFilter ==
    \A a \in 0..N, L \in 1..N :
        ( /\ a + L < N
          /\ \A k \in 1..a : IsAtAbove(frames[k])
          /\ \A k \in (a + 1)..(a + L) : IsBelow(frames[k])
          /\ \A k \in (a + L + 1)..N : IsAtAbove(frames[k]) )
        => IF L >= CONSECUTIVE_FRAMES
           THEN /\ Len(blink_records) = 1
                /\ blink_records[1].duration_frames = L
                /\ total_blinks = 1
           ELSE /\ blink_records = <<>>
                /\ total_blinks = 0

C1_Witness ==
    /\ N = 5
    /\ IsAtAbove(frames[1]) /\ IsBelow(frames[2]) /\ IsBelow(frames[3])
    /\ IsBelow(frames[4]) /\ IsAtAbove(frames[5])
    /\ Len(blink_records) = 1
    /\ blink_records[1].duration_frames = 3

\* C2: every record in blink_records has duration_frames >= CONSECUTIVE_FRAMES,
\* every CSV row belongs to such a record, and a frame appends a record only
\* when the run it ends has at least CONSECUTIVE_FRAMES frames.
C2_DurationAtLeastMinRun ==
    /\ \A j \in 1..Len(blink_records) :
           blink_records[j].duration_frames >= CONSECUTIVE_FRAMES
    /\ Len(csv_rows) = Len(blink_records)
    /\ \A k \in 1..N : Emitted(k) => RunBefore(k) >= CONSECUTIVE_FRAMES

C2_Witness ==
    /\ Len(blink_records) = 1
    /\ blink_records[1].duration_frames >= CONSECUTIVE_FRAMES
    /\ \E k \in 2..N : IsAtAbove(frames[k]) /\ RunBefore(k) = 1 /\ ~Emitted(k)

\* C3: the k-th record appended has blink_number = k.
C3_SequentialNumbering ==
    \A j \in 1..Len(blink_records) : blink_records[j].blink_number = j

C3_Witness ==
    /\ Len(blink_records) = 2
    /\ blink_records[1].blink_number = 1
    /\ blink_records[2].blink_number = 2

\* the step decodes one more frame
Decodes == N' = N + 1

\* the frame that step decodes
Decoded == frames'[N']

\* C4: when the stream ends with a below-threshold run in progress, no frame
\* at or above the threshold having followed the run's frames, nothing was
\* logged for the run: the log and total_blinks are what they were before the
\* run's first frame.
C4_UnterminatedDiscarded ==
    pc = "done" =>
        \A s \in 1..N :
            ( /\ IsBelow(frames[s])
              /\ \A k \in s..N : ~IsAtAbove(frames[k]) )
            => /\ Len(blink_records) = LogAfter(s - 1)
               /\ total_blinks = LogAfter(s - 1)

\* C4 on the streams in which every face has a finite EAR
C4_OnFiniteEars ==
    (\A k \in 1..N : frames[k].face => frames[k].ear.kind = "num")
        => C4_UnterminatedDiscarded

\* C5: a frame without a face leaves frame_counter, blink_start_frame,
\* blink_ear_values, total_blinks and the log unchanged; so, after open frames,
\* [below, no face, below, at/above] gives exactly one record, of duration 2,
\* starting at the first of the four.
C5_GapExample ==
    \A a \in 0..N :
        ( /\ N = a + 4
          /\ \A k \in 1..a : IsAtAbove(frames[k])
          /\ IsBelow(frames[a + 1]) /\ IsNoFace(frames[a + 2])
          /\ IsBelow(frames[a + 3]) /\ IsAtAbove(frames[a + 4]) )
        => /\ Len(blink_records) = 1
           /\ blink_records[1].duration_frames = 2
           /\ blink_records[1].frame = a + 1

C5_NoFaceGap ==
    /\ [][ (Decodes /\ IsNoFace(Decoded))
             => UNCHANGED <<frame_counter, blink_start_frame, blink_ear_values,
                            total_blinks, blink_records, csv_rows>> ]_vars
    /\ []C5_GapExample

C5_Witness ==
    /\ N = 4
    /\ IsBelow(frames[1]) /\ IsNoFace(frames[2])
    /\ IsBelow(frames[3]) /\ IsAtAbove(frames[4])
    /\ Len(blink_records) = 1
    /\ blink_records[1].duration_frames = 2
    /\ blink_records[1].frame = 1

\* C6: a frame one of whose eyes has horizontal distance zero is treated as a
\* frame without a face: its EAR is no number, nothing is appended to
\* ear_values, and the run in progress and the blink count are unchanged.
C6_DegenerateAsNoFace ==
    [][ (Decodes /\ Decoded.degenerate)
          => UNCHANGED <<ear_values, frame_counter, blink_start_frame,
                         blink_ear_values, total_blinks, blink_records>> ]_vars

\* C7: a record's frame is the first below-threshold frame of the run it
\* reports, and its timestamp is that of the frame at or above the threshold
\* that ended the run; open, open, below, below, open, open gives one record
\* with frame 3, duration 2 and the timestamp of frame 5.
C7_Scenario ==
    ( /\ N = 6
      /\ IsAtAbove(frames[1]) /\ IsAtAbove(frames[2])
      /\ IsBelow(frames[3]) /\ IsBelow(frames[4])
      /\ IsAtAbove(frames[5]) /\ IsAtAbove(frames[6]) )
    => /\ Len(blink_records) = 1
       /\ blink_records[1].frame = 3
       /\ blink_records[1].duration_frames = 2
       /\ blink_records[1].timestamp = format_timestamp(frames[5].ts)

C7_EventFields ==
    /\ \A j \in 1..Len(blink_records) :
           LET e == EmitFrame(j)
               r == blink_records[j]
           IN  /\ r.frame = RunStart(e)
               /\ IsAtAbove(frames[e])
               /\ r.timestamp = format_timestamp(frames[e].ts)
    /\ C7_Scenario

\* C7 on the streams in which every face has a finite EAR
C7_OnFiniteEars ==
    (\A k \in 1..N : frames[k].face => frames[k].ear.kind = "num")
        => C7_EventFields

RECURSIVE EarSum(_)
EarSum(S) ==
    IF S = {} THEN 0
    ELSE LET m == CHOOSE x \in S : TRUE
         IN  frames[m].ear.val + EarSum(S \ {m})

\* C9: a frame at or above the threshold leaves frame_counter = 0,
\* blink_start_frame = None and blink_ear_values empty, with or without a
\* record; a record counts and averages the frames of its own run only.
C9_OwnRunOnly ==
    \A j \in 1..Len(blink_records) :
        LET e == EmitFrame(j)
            run == BelowIn(StretchStart(e), e)
            r == blink_records[j]
        IN  /\ r.duration_frames = Cardinality(run)
            /\ r.avg_ear = [num |-> EarSum(run), den |-> Cardinality(run)]

C9_ResetOnReopen ==
    /\ [][ (Decodes /\ IsAtAbove(Decoded))
             => /\ frame_counter' = 0
                /\ blink_start_frame' = None
                /\ blink_ear_values' = <<>> ]_vars
    /\ []C9_OwnRunOnly

C9_Witness ==
    /\ N = 5
    /\ IsBelow(frames[1]) /\ IsAtAbove(frames[2]) /\ ~Emitted(2)
    /\ IsBelow(frames[3]) /\ IsBelow(frames[4]) /\ IsAtAbove(frames[5])
    /\ Len(blink_records) = 1
    /\ blink_records[1].duration_frames = 2
    /\ frame_counter = 0 /\ blink_start_frame = None /\ blink_ear_values = <<>>

\* the avg EAR of the frames with a face, in frame order
RECURSIVE FaceEars(_)
FaceEars(h) ==
    IF h = <<>> THEN <<>>
    ELSE IF Head(h).face THEN <<Head(h).ear>> \o FaceEars(Tail(h))
         ELSE FaceEars(Tail(h))

\* C10: current_frame is the number of frames decoded, face or not, and
\* ear_values holds one entry per frame with a face, in frame order.
C10_AggregatorCounts ==
    /\ current_frame = N
    /\ ear_values = FaceEars(frames)

C10_Witness ==
    /\ current_frame = 3
    /\ IsNoFace(frames[1]) /\ IsBelow(frames[2]) /\ IsNoFace(frames[3])
    /\ Len(ear_values) = 1

\* C11: total_blinks, the number of records and the number of CSV data rows
\* agree in every state, and the j-th row is the row of the j-th record.
C11_LogAgreement ==
    /\ total_blinks = Len(blink_records)
    /\ Len(csv_rows) = Len(blink_records)
    /\ \A j \in 1..Len(csv_rows) :
           /\ csv_rows[j][1] = blink_records[j].blink_number
           /\ csv_rows[j][2] = blink_records[j].timestamp
           /\ csv_rows[j][3] = blink_records[j].frame

C11_Witness ==
    /\ pc = "done"
    /\ total_blinks = 2
    /\ Len(csv_rows) = 2
    /\ csv_rows[1][3] = 1 /\ csv_rows[2][3] = 4

C17_TrackingCoherence ==
    /\ frame_counter = Len(blink_ear_values)
    /\ (blink_start_frame = None) <=> (frame_counter = 0)
    /\ blink_start_frame # None => blink_start_frame \in 1..current_frame

C17_Witness ==
    /\ current_frame = 4
    /\ blink_start_frame = 2
    /\ frame_counter = 2
    /\ Len(blink_ear_values) = 2
    /\ IsNoFace(frames[3])

\* C18: a frame appends at most one record; of two records appended one after
\* the other, the first starts before the frame that appended it, which comes
\* before the start of the second; the frames a record counts lie between its
\* start and the frame that appended it.
C18_OrderedEvents ==
    /\ \A k \in 1..N : LogAfter(k) - LogAfter(k - 1) \in {0, 1}
    /\ Len(blink_records) = LogAfter(N)
    /\ \A j \in 1..Len(blink_records) :
           /\ blink_records[j].frame < EmitFrame(j)
           /\ blink_records[j].frame + blink_records[j].duration_frames <= EmitFrame(j)
           /\ j < Len(blink_records) => EmitFrame(j) < blink_records[j + 1].frame

C18_Witness ==
    /\ Len(blink_records) = 2
    /\ blink_records[1].frame = 1 /\ EmitFrame(1) = 3
    /\ blink_records[2].frame = 4 /\ EmitFrame(2) = 6

-----------------------------------------------------------------------------
(* Claims about main() as a whole, under SpecMain *)

\* the loop was left by end of stream and the process has ended
Finished == pc = "exit" /\ cap = "released"

BadVideo == video.has_arg /\ (~video.exists \/ ~video.opens)

\* C13: on a missing path or a file the decoder cannot open, the program ends
\* with exit code 1 by sys.exit, having decoded no frame and created neither
\* the CSV nor the report; when it completes it has written both.
C13_FatalInput ==
    /\ BadVideo =>
           /\ pc \in {"start", "exit"}
           /\ current_frame = 0
           /\ csv_file = "none"
           /\ ~report.written
           /\ pc = "exit" => (exit_code = 1 /\ error = "")
    /\ (pc = "exit" /\ exit_code = 0) =>
           /\ csv_file = "closed"
           /\ report.written
           /\ report.rows = Len(csv_rows)

C13_Witness ==
    /\ pc = "exit"
    /\ video.has_arg /\ video.exists /\ ~video.opens
    /\ exit_code = 1
    /\ cap = "unopened"
    /\ csv_file = "none"

\* C14: when the program stops, by the end of the stream, by a capture that
\* does not open, or by an exception of the landmarker's creation or of a
\* frame's processing, the capture, the landmarker and the CSV file it
\* acquired are released. (A capture that did not open holds nothing.)
C14_ReleasedOnExit ==
    (pc = "exit" /\ error \in {"", "RuntimeError"}) =>
        /\ cap \in {"none", "unopened", "released"}
        /\ landmarker \in {"none", "closed"}
        /\ csv_file \in {"none", "closed"}

-----------------------------------------------------------------------------
(* Claims about format_timestamp, under SpecFormat *)

\* C16: the fields HH, MM, SS, mmm of format_timestamp(t) have MM < 60,
\* SS < 60, mmm < 1000 and HH*3600000 + MM*60000 + SS*1000 + mmm = t, for
\* every t >= 0, also of 24 hours and more.
C16_TimestampRoundTrip ==
    fmt_out # <<>> =>
        /\ fmt_out[2] < 60
        /\ fmt_out[3] < 60
        /\ fmt_out[4] < 1000
        /\ fmt_out[1] * 3600000 + fmt_out[2] * 60000 + fmt_out[3] * 1000 + fmt_out[4]
               = fmt_in

\* C16 for t below 24 hours
C16_BelowOneDay ==
    fmt_in < 24 * 3600000 => C16_TimestampRoundTrip

-----------------------------------------------------------------------------
(* Claims about camera_recorder.py, under SpecRecorder *)

Writers == 1..Len(writers)

\* C19: at the start of every iteration is_recording holds exactly when
\* video_writer is not None; no frame is written to a missing or released
\* writer; and when the program has ended every writer created has been
\* released exactly once.
C19_WriterLifecycle ==
    /\ rec_pc = "loop" => (is_recording <=> video_writer # None)
    /\ rec_pc # "AttributeError"
    /\ \A w \in Writers :
           /\ \A i \in 1..Len(writers[w].written) : ~writers[w].written[i].late
           /\ writers[w].released <= 1
    /\ rec_pc \in {"end", "FileNotFoundError"} =>
           \A w \in Writers : writers[w].released = 1

C19_Witness ==
    /\ rec_pc = "end"
    /\ Len(writers) = 2
    /\ writers[1].released = 1 /\ writers[2].released = 1
    /\ Len(writers[1].written) = 1
    /\ Len(writers[2].written) = 1
    /\ is_recording

\* the frames written to every recording are numbered 1, 2, ..., n in order
NumberedFromOne ==
    \A w \in Writers :
        \A i \in 1..Len(writers[w].written) : writers[w].written[i].n = i

\* C20: the frames written to each recording are numbered 1, 2, ..., n in
\* write order; the counter is reset when a recording starts and does not
\* change in an iteration that neither records nor starts a recording.
C20_FrameNumbering ==
    /\ []NumberedFromOne
    /\ [][ (~is_recording /\ is_recording') => recording_frame_number' = 0 ]_recVars
    /\ [][ (~is_recording /\ ~is_recording')
             => recording_frame_number' = recording_frame_number ]_recVars

C20_Witness ==
    /\ Len(writers) = 2
    /\ Len(writers[1].written) = 2
    /\ writers[1].written[2].n = 2
    /\ Len(writers[2].written) = 1
    /\ writers[2].written[1].n = 1
    /\ recording_frame_number = 1

====
